---- MODULE Spec2Model ----
(***************************************************************************)
(* Model of scanner/engine/runtime.cpp: the I/O item planner               *)
(* (create_io_items), the master's work-allocation protocol (MasterImpl)   *)
(* and the worker's five-stage pipeline (WorkerImpl::NewJob).              *)
(***************************************************************************)
EXTENDS Integers, Sequences, FiniteSets, TLC

(***************************************************************************)
(* Bounds of the model and process-wide configuration.                     *)
(***************************************************************************)
MaxTasks == 2
MaxSamples == 2
MaxRows == 5
\* workers that may register with the master, jobs submitted to it, and
\* rows of the single-task jobs submitted to the master
MaxWorkers == 2
MaxJobs == 2
MaxJobRows == 3

\* evaluators of a task set, device_count of an evaluator, and entries of
\* GPU_DEVICE_IDS on a worker node
MaxEvaluators == 2
MaxDeviceCount == 3
MaxGpus == 3

\* threads per stage and in-flight cap of a worker node
LOAD_WORKERS_PER_NODE == 1
PUS_PER_NODE == 1
SAVE_WORKERS_PER_NODE == 1
TASKS_IN_QUEUE_PER_PU == 2

\* rows_per_io_item(): rows per I/O item
IO_ITEM_SIZE == 2
\* i32 warmup_size = 0;
warmup_size == 0

Min(a, b) == IF a < b THEN a ELSE b
Max(a, b) == IF a > b THEN a ELSE b

(***************************************************************************)
(* Planner inputs: a task set is a sequence of tasks, a task has a         *)
(* sequence of samples, a sample names (job_id, table_id, column_ids,      *)
(* rows).  Row k of the sample of table t is the upstream row index        *)
(* 10*(t+1)+k, so that a row value is never equal to its position.         *)
(***************************************************************************)
Sample(t, n) ==
  [job_id |-> 0, table_id |-> t, column_ids |-> <<t>>,
   rows |-> [j \in 1..n |-> 10 * (t + 1) + j - 1]]

\* tasks with 0..MaxSamples samples; sample k reads table k-1
TasksWith(ns) ==
  { [samples |-> [k \in 1..ns |-> Sample(k - 1, len[k])]] :
      len \in [1..ns -> 0..MaxRows] }

PlanTasks == UNION { TasksWith(ns) : ns \in 0..MaxSamples }

PlanTaskSets == UNION { [1..n -> PlanTasks] : n \in 0..MaxTasks }

\* the marker read by sample.rows(s) when s is past the end of the sample
OutOfBounds == -1

(***************************************************************************)
(* create_io_items                                                         *)
(***************************************************************************)
\* sample.rows(s), 0-based
RowAt(sample, s) ==
  IF s >= 0 /\ s < Len(sample.rows) THEN sample.rows[s + 1] ELSE OutOfBounds

RowsToAllocate_OffByOne(rows_in_task, allocated_rows) ==
  Min(IO_ITEM_SIZE + 1, rows_in_task - allocated_rows)

\* std::min((i64)io_item_size, rows_in_task - allocated_rows)
RowsToAllocate(rows_in_task, allocated_rows) ==
  Min(IO_ITEM_SIZE, rows_in_task - allocated_rows)

MakeIOItem_InclusiveEnd(i, item_id, allocated_rows, rows_to_allocate) ==
  [table_id |-> i, item_id |-> item_id,
   start_row |-> allocated_rows,
   end_row |-> allocated_rows + rows_to_allocate - 1]

\* IOItem item; item.table_id = i; item.item_id = item_id++; ...
MakeIOItem(i, item_id, allocated_rows, rows_to_allocate) ==
  [table_id |-> i, item_id |-> item_id,
   start_row |-> allocated_rows,
   end_row |-> allocated_rows + rows_to_allocate]

LoadStart_Previous(allocated_rows, warmup) ==
  Max(allocated_rows - warmup - 1, 0)

\* i64 s = std::max(allocated_rows - warmup_size, 0L);
LoadStart(allocated_rows, warmup) == Max(allocated_rows - warmup, 0)

\* the rows added to load_sample: sample.rows(s) for s in [max(a - warmup, 0), e)
LoadRows(sample, allocated_rows, rows_to_allocate) ==
  LET e == allocated_rows + rows_to_allocate
      s == LoadStart(allocated_rows, warmup_size)
  IN [k \in 1..(e - s) |-> RowAt(sample, s + k - 1)]

LoadSample(sample, allocated_rows, rows_to_allocate) ==
  [job_id |-> sample.job_id, table_id |-> sample.table_id,
   column_ids |-> sample.column_ids,
   rows |-> LoadRows(sample, allocated_rows, rows_to_allocate)]

\* LoadWorkEntry load_item; load_item.set_io_item_index(io_items.size() - 1)
MakeLoadItem(task, io_item_index, allocated_rows, rows_to_allocate) ==
  [io_item_index |-> io_item_index,
   samples |-> [k \in 1..Len(task.samples) |->
                  LoadSample(task.samples[k], allocated_rows, rows_to_allocate)]]

\* a row position past the end of some sample is read for this item
ReadsPastEnd(task, allocated_rows, rows_to_allocate) ==
  \E k \in 1..Len(task.samples) :
     allocated_rows + rows_to_allocate > Len(task.samples[k].rows)

\* while (allocated_rows < rows_in_task) { ... }
RECURSIVE AllocateTask(_, _, _, _, _)
AllocateTask(task, i, item_id, allocated_rows, out) ==
  LET rows_in_task == Len(task.samples[1].rows) IN
  IF allocated_rows < rows_in_task
  THEN LET r == RowsToAllocate(rows_in_task, allocated_rows)
           items == Append(out.io_items,
                      MakeIOItem(i, item_id, allocated_rows, r))
           entry == MakeLoadItem(task, Len(items) - 1, allocated_rows, r)
       IN AllocateTask(task, i, item_id + 1, allocated_rows + r,
            [status |-> IF ReadsPastEnd(task, allocated_rows, r)
                        THEN "out_of_bounds" ELSE out.status,
             io_items |-> items,
             load_work_entries |-> Append(out.load_work_entries, entry)])
  ELSE out

\* for (size_t i = 0; i < tasks.size(); ++i) { assert(samples().size() > 0); ... }
RECURSIVE PlanFrom(_, _, _)
PlanFrom(tasks, i, out) ==
  IF i < Len(tasks)
  THEN IF Len(tasks[i + 1].samples) = 0
       THEN [out EXCEPT !.status = "assert"]
       ELSE PlanFrom(tasks, i + 1, AllocateTask(tasks[i + 1], i, 0, 0, out))
  ELSE out

create_io_items(tasks) ==
  PlanFrom(tasks, 0,
    [status |-> "ok", io_items |-> <<>>, load_work_entries |-> <<>>])

\* what a read past the end of a sample's rows may yield in one process:
\* whatever lies behind the row array
GarbageRows == {OutOfBounds, OutOfBounds - 1}

\* the load-work entries of one run, every read past the end yielding g
ReadGarbage(entries, g) ==
  [k \in 1..Len(entries) |->
     [entries[k] EXCEPT !.samples =
        [j \in 1..Len(entries[k].samples) |->
           [entries[k].samples[j] EXCEPT !.rows =
              [p \in 1..Len(entries[k].samples[j].rows) |->
                 IF entries[k].samples[j].rows[p] = OutOfBounds
                 THEN g ELSE entries[k].samples[j].rows[p]]]]]]

\* the planner's outputs before it has run
NotPlanned ==
  [status |-> "input", io_items |-> <<>>, load_work_entries |-> <<>>]

(***************************************************************************)
(* Kernel binding in WorkerImpl::NewJob: the devices of one kernel config  *)
(***************************************************************************)
DeviceTypes == {"CPU", "GPU", "OTHER"}

\* the evaluators of a task set, by the fields kernel binding reads
EvaluatorInputs ==
  [device_type : DeviceTypes, device_count : 0..MaxDeviceCount]

EvaluatorLists == UNION { [1..n -> EvaluatorInputs] : n \in 0..MaxEvaluators }

\* the device record of the CPU
CPU_DEVICE == [type |-> "CPU", id |-> 0]

\* the id a division by zero leaves in device_id when the process survives
NoDeviceId == -1

GpuDeviceId_NoWrap(i, gpus) == i

\* i32 device_id = i % num_gpus;
GpuDeviceId(i, gpus) == i % gpus

\* for (i32 i = 0; i < evaluator.device_count(); ++i) devices.push_back(...)
GpuDevices(device_count, gpus) ==
  [k \in 1..device_count |->
     [type |-> "GPU", id |-> GpuDeviceId(k - 1, gpus)]]

\* what binding one evaluator can come to: the devices of its kernel config,
\* LOG(FATAL) for a device type that is neither CPU nor GPU, and for a GPU
\* evaluator on a node without GPU ids a division by zero, which ends the
\* process or leaves an arbitrary id
BindOutcomes(evaluator, gpus) ==
  IF evaluator.device_type = "CPU"
  THEN {[status |-> "ok", devices |-> <<CPU_DEVICE>>]}
  ELSE IF evaluator.device_type = "GPU"
  THEN IF evaluator.device_count = 0
       THEN {[status |-> "ok", devices |-> <<>>]}
       ELSE IF gpus > 0
       THEN {[status |-> "ok",
              devices |-> GpuDevices(evaluator.device_count, gpus)]}
       ELSE {[status |-> "crashed", devices |-> <<>>],
             [status |-> "ok",
              devices |-> [k \in 1..evaluator.device_count |->
                             [type |-> "GPU", id |-> NoDeviceId]]]}
  ELSE {[status |-> "fatal", devices |-> <<>>]}

(***************************************************************************)
(* State                                                                   *)
(***************************************************************************)
VARIABLES
  evaluators,          \* job_params->task_set().evaluators()
  num_gpus,            \* GPU_DEVICE_IDS.size()
  kernel_configs,      \* std::vector<Kernel::Config>, by their devices
  bind_status,         \* "binding", or how kernel binding ended the process
  task_set,            \* job_params->task_set().tasks()
  plan_status,         \* "input" before planning, then the planner's outcome
  io_items,            \* std::vector<IOItem> io_items
  load_work_entries,   \* std::vector<LoadWorkEntry> load_work_entries
  worker_plan,         \* outputs of the planner run in WorkerImpl::NewJob
  \* MasterImpl
  workers_,                    \* registered worker stubs, in registration order
  next_io_item_to_allocate_,   \* the cursor
  num_io_items_,
  m_pc,                \* position of the thread running MasterImpl::NewJob
  job_name,            \* job_params->job_name() of the current job
  jobs_started,        \* NewJob calls received so far
  requests,            \* state of the std::thread of each worker's request
  fan_i,               \* workers the fan-out loop has spawned a thread for
  join_i,              \* request threads joined so far
  database_metadata,   \* the stored manifest: job names, index = job id
  job_descriptors,     \* the stored job descriptors
  new_job_status,      \* what the last MasterImpl::NewJob returned
  \* one NextIOItem handler invocation per calling worker
  nio_pc,              \* "none", "check", "set", "inc"
  nio_reg,             \* the cursor value the handler loaded at the comparison
  handed_out,          \* replies of NextIOItem in the current job: <<worker, id>>
  \* WorkerImpl, one per worker
  node_id_,
  w_pc,                \* position of the thread running WorkerImpl::NewJob
  next_item,           \* io_item.item_id() of the last reply
  accepted_items,
  retired_items,
  load_work,           \* Queue<LoadWorkEntry>, entries named by io_item_index
  initial_eval_work,   \* Queue<EvalWorkEntry>
  eval_work,           \* eval_work[pu][0..2]
  save_work,           \* Queue<EvalWorkEntry>
  load_threads, pre_eval_threads, eval_threads, post_eval_threads, save_threads,
  pushed,              \* io_item_index of every entry the control loop pushed
  saved,               \* io_item_index of every save-stage write
  pu_order             \* per PU: the entries each of its threads handled

plan_vars == <<task_set, plan_status, io_items, load_work_entries,
               worker_plan>>

master_vars == <<workers_, next_io_item_to_allocate_, num_io_items_, m_pc,
                 job_name, jobs_started, requests, fan_i, join_i,
                 database_metadata, job_descriptors, new_job_status>>

bind_vars == <<evaluators, num_gpus, kernel_configs, bind_status>>

nio_vars == <<nio_pc, nio_reg, handed_out>>

queue_vars == <<load_work, initial_eval_work, eval_work, save_work>>

thread_vars == <<load_threads, pre_eval_threads, eval_threads,
                 post_eval_threads, save_threads>>

worker_vars == <<node_id_, w_pc, next_item, accepted_items, retired_items,
                 queue_vars, thread_vars, pushed, saved, pu_order>>

sys_vars == <<master_vars, nio_vars, worker_vars>>

vars == <<plan_vars, bind_vars, sys_vars>>

Workers == 1..MaxWorkers
PUs == 0..(PUS_PER_NODE - 1)
LoadIds == 0..(LOAD_WORKERS_PER_NODE - 1)
SaveIds == 0..(SAVE_WORKERS_PER_NODE - 1)

\* io_item_index of a sentinel entry
Sentinel == -1

\* no entry has passed any thread of any PU
NoOrder ==
  [pu \in PUs |->
     [pre_eval |-> <<>>, eval |-> <<>>, post_eval |-> <<>>, save |-> <<>>]]

\* no kernel binding under way
NotBinding ==
  /\ evaluators = <<>>
  /\ num_gpus = 0
  /\ kernel_configs = <<>>
  /\ bind_status = "binding"

(***************************************************************************)
(* State after construction of the master, before any worker exists        *)
(***************************************************************************)
SysInit ==
  /\ workers_ = <<>>
  /\ next_io_item_to_allocate_ = 0
  /\ num_io_items_ = 0
  /\ m_pc = "idle"
  /\ job_name = 0
  /\ jobs_started = 0
  /\ requests = [w \in Workers |-> "none"]
  /\ fan_i = 0
  /\ join_i = 0
  /\ database_metadata = <<>>
  /\ job_descriptors = <<>>
  /\ new_job_status = "none"
  /\ nio_pc = [w \in Workers |-> "none"]
  /\ nio_reg = [w \in Workers |-> 0]
  /\ handed_out = <<>>
  /\ node_id_ = [w \in Workers |-> -1]
  /\ w_pc = [w \in Workers |-> "down"]
  /\ next_item = [w \in Workers |-> 0]
  /\ accepted_items = [w \in Workers |-> 0]
  /\ retired_items = [w \in Workers |-> 0]
  /\ load_work = [w \in Workers |-> <<>>]
  /\ initial_eval_work = [w \in Workers |-> <<>>]
  /\ eval_work = [w \in Workers |-> [pu \in PUs |-> [q \in 0..2 |-> <<>>]]]
  /\ save_work = [w \in Workers |-> <<>>]
  /\ load_threads = [w \in Workers |-> [i \in LoadIds |-> "none"]]
  /\ pre_eval_threads = [w \in Workers |-> [pu \in PUs |-> "none"]]
  /\ eval_threads = [w \in Workers |-> [pu \in PUs |-> "none"]]
  /\ post_eval_threads = [w \in Workers |-> [pu \in PUs |-> "none"]]
  /\ save_threads = [w \in Workers |-> [i \in SaveIds |-> "none"]]
  /\ pushed = [w \in Workers |-> <<>>]
  /\ saved = [w \in Workers |-> <<>>]
  /\ pu_order = [w \in Workers |-> NoOrder]

(***************************************************************************)
(* The planner run on an arbitrary task set                                *)
(***************************************************************************)
PlanInit ==
  /\ task_set \in PlanTaskSets
  /\ plan_status = "input"
  /\ io_items = <<>>
  /\ load_work_entries = <<>>
  /\ worker_plan = NotPlanned
  /\ NotBinding
  /\ SysInit

\* one call of create_io_items(task_set, io_items, load_work_entries)
Plan ==
  /\ plan_status = "input"
  /\ LET out == create_io_items(task_set) IN
       /\ plan_status' = out.status
       /\ io_items' = out.io_items
       /\ \E g \in GarbageRows :
            load_work_entries' = ReadGarbage(out.load_work_entries, g)
  /\ UNCHANGED <<task_set, worker_plan, bind_vars, sys_vars>>

\* the call of create_io_items in WorkerImpl::NewJob, on the task set of the
\* job the master has planned
PlanOnWorker ==
  /\ plan_status # "input"
  /\ worker_plan = NotPlanned
  /\ LET out == create_io_items(task_set) IN
       \E g \in GarbageRows :
          worker_plan' =
            [out EXCEPT !.load_work_entries =
                           ReadGarbage(out.load_work_entries, g)]
  /\ UNCHANGED <<task_set, plan_status, io_items, load_work_entries,
                 bind_vars, sys_vars>>

PlanNext == Plan \/ PlanOnWorker

SpecPlan == PlanInit /\ [][PlanNext]_vars

(***************************************************************************)
(* Kernel binding run on an arbitrary evaluator list                       *)
(***************************************************************************)
BindInit ==
  /\ evaluators \in EvaluatorLists
  /\ num_gpus \in 0..MaxGpus
  /\ kernel_configs = <<>>
  /\ bind_status = "binding"
  /\ task_set = <<>>
  /\ plan_status = "input"
  /\ io_items = <<>>
  /\ load_work_entries = <<>>
  /\ worker_plan = NotPlanned
  /\ SysInit

\* one iteration of for (auto& evaluator : evaluators)
BindKernel ==
  /\ bind_status = "binding"
  /\ Len(kernel_configs) < Len(evaluators)
  /\ \E out \in BindOutcomes(evaluators[Len(kernel_configs) + 1], num_gpus) :
       IF out.status = "ok"
       THEN /\ kernel_configs' = Append(kernel_configs, out.devices)
            /\ UNCHANGED bind_status
       ELSE /\ bind_status' = out.status
            /\ UNCHANGED kernel_configs
  /\ UNCHANGED <<evaluators, num_gpus, plan_vars, sys_vars>>

BindNext == BindKernel

SpecBind == BindInit /\ [][BindNext]_vars

(***************************************************************************)
(* MasterImpl                                                              *)
(***************************************************************************)
\* the jobs submitted to the master: one task with one sample of 0..MaxJobRows
JobTaskSets == { <<[samples |-> <<Sample(0, n)>>]>> : n \in 0..MaxJobRows }

\* registration.node_id() as the worker reads it: RegisterWorker writes no
\* field of its reply, so the field keeps its protobuf default
RegistrationNodeId(workers) == 0

\* MasterImpl::RegisterWorker, called from the constructor of WorkerImpl
RegisterWorker(w) ==
  /\ m_pc = "idle"
  /\ w_pc[w] = "down"
  /\ w = Len(workers_) + 1
  /\ workers_' = Append(workers_, w)
  /\ node_id_' = [node_id_ EXCEPT ![w] = RegistrationNodeId(workers_)]
  /\ w_pc' = [w_pc EXCEPT ![w] = "idle"]
  /\ UNCHANGED <<plan_vars, bind_vars, next_io_item_to_allocate_, num_io_items_, m_pc,
                 job_name, jobs_started, requests, fan_i, join_i,
                 database_metadata, job_descriptors, new_job_status, nio_vars,
                 next_item, accepted_items, retired_items, queue_vars,
                 thread_vars, pushed, saved, pu_order>>

\* the cursor when MasterImpl::NewJob has planned the job: the handler
\* assigns num_io_items_ and does not assign next_io_item_to_allocate_
CursorAtNewJob(cursor) == cursor

\* MasterImpl::NewJob up to the fan-out: plan the job, set num_io_items_
M_NewJob(ts) ==
  /\ m_pc = "idle"
  /\ jobs_started < MaxJobs
  /\ LET out == create_io_items(ts) IN
       /\ out.status = "ok"
       /\ task_set' = ts
       /\ plan_status' = out.status
       /\ io_items' = out.io_items
       /\ load_work_entries' = out.load_work_entries
       /\ worker_plan' = NotPlanned
       /\ num_io_items_' = Len(out.io_items)
  /\ next_io_item_to_allocate_' = CursorAtNewJob(next_io_item_to_allocate_)
  /\ job_name' = jobs_started + 1
  /\ jobs_started' = jobs_started + 1
  /\ requests' = [w \in Workers |-> "none"]
  /\ fan_i' = 0
  /\ join_i' = 0
  /\ new_job_status' = "none"
  /\ handed_out' = <<>>
  /\ m_pc' = "fanout"
  /\ UNCHANGED <<bind_vars, workers_, database_metadata, job_descriptors,
                 nio_pc, nio_reg,
                 worker_vars>>

\* for (auto& worker : workers_) requests.push_back(std::thread(...))
M_Spawn ==
  /\ m_pc = "fanout"
  /\ IF fan_i < Len(workers_)
     THEN /\ requests' = [requests EXCEPT ![workers_[fan_i + 1]] = "running"]
          /\ fan_i' = fan_i + 1
          /\ UNCHANGED m_pc
     ELSE /\ m_pc' = "join"
          /\ UNCHANGED <<requests, fan_i>>
  /\ UNCHANGED <<plan_vars, bind_vars, workers_, next_io_item_to_allocate_, num_io_items_,
                 job_name, jobs_started, join_i, database_metadata,
                 job_descriptors, new_job_status, nio_vars, worker_vars>>

JoinReady_NoWait(w) == TRUE

\* r.join() returns when the thread's call of worker->NewJob has returned
JoinReady(w) == requests[w] \in {"ok", "failed"}

\* for (auto& r : requests) r.join()
M_Join ==
  /\ m_pc = "join"
  /\ join_i < Len(workers_)
  /\ JoinReady(workers_[join_i + 1])
  /\ join_i' = join_i + 1
  /\ UNCHANGED <<plan_vars, bind_vars, workers_, next_io_item_to_allocate_, num_io_items_,
                 m_pc, job_name, jobs_started, requests, fan_i,
                 database_metadata, job_descriptors, new_job_status, nio_vars,
                 worker_vars>>

\* DatabaseMetadata::add_job: append the name, its index is the job id
AddJob(meta, name) == Append(meta, name)

JoinsDone_AtLeastOne == join_i = Len(workers_) /\ join_i > 0

\* the loop over requests has joined every thread it holds
JoinsDone == join_i = Len(workers_)

\* read_database_metadata; meta.add_job(job_name); write_database_metadata
M_WriteDatabaseMetadata ==
  /\ m_pc = "join"
  /\ JoinsDone
  /\ database_metadata' = AddJob(database_metadata, job_name)
  /\ m_pc' = "descriptor"
  /\ UNCHANGED <<plan_vars, bind_vars, workers_, next_io_item_to_allocate_, num_io_items_,
                 job_name, jobs_started, requests, fan_i, join_i,
                 job_descriptors, new_job_status, nio_vars, worker_vars>>

\* job_descriptor.set_id(job_id); set_name; write_job_metadata; the function
\* then ends without a return statement, so the status the caller sees is
\* whatever the build leaves there
M_WriteJobMetadata ==
  /\ m_pc = "descriptor"
  /\ job_descriptors' = Append(job_descriptors,
       [id |-> Len(database_metadata) - 1, name |-> job_name,
        io_item_size |-> IO_ITEM_SIZE, num_nodes |-> Len(workers_)])
  /\ \E st \in {"OK", "garbage"} : new_job_status' = st
  /\ m_pc' = "idle"
  /\ UNCHANGED <<plan_vars, bind_vars, workers_, next_io_item_to_allocate_, num_io_items_,
                 job_name, jobs_started, requests, fan_i, join_i,
                 database_metadata, nio_vars, worker_vars>>

\* the queues and threads WorkerImpl::NewJob sets up before its control loop
FreshThreads(ids) == [i \in ids |-> "running"]

MasterUp == m_pc # "aborted"

\* WorkerImpl::NewJob from its entry to the start of the control loop: the
\* shared counters, the queues and the stage threads are set up
WorkerSetup(w) ==
  /\ w_pc' = [w_pc EXCEPT ![w] = "loop"]
  /\ accepted_items' = [accepted_items EXCEPT ![w] = 0]
  /\ retired_items' = [retired_items EXCEPT ![w] = 0]
  /\ load_work' = [load_work EXCEPT ![w] = <<>>]
  /\ initial_eval_work' = [initial_eval_work EXCEPT ![w] = <<>>]
  /\ eval_work' = [eval_work EXCEPT
                     ![w] = [pu \in PUs |-> [q \in 0..2 |-> <<>>]]]
  /\ save_work' = [save_work EXCEPT ![w] = <<>>]
  /\ load_threads' = [load_threads EXCEPT ![w] = FreshThreads(LoadIds)]
  /\ pre_eval_threads' = [pre_eval_threads EXCEPT ![w] = FreshThreads(PUs)]
  /\ eval_threads' = [eval_threads EXCEPT ![w] = FreshThreads(PUs)]
  /\ post_eval_threads' = [post_eval_threads EXCEPT ![w] = FreshThreads(PUs)]
  /\ save_threads' = [save_threads EXCEPT ![w] = FreshThreads(SaveIds)]
  /\ pushed' = [pushed EXCEPT ![w] = <<>>]
  /\ saved' = [saved EXCEPT ![w] = <<>>]
  /\ pu_order' = [pu_order EXCEPT ![w] = NoOrder]
  /\ UNCHANGED <<node_id_, next_item>>

\* the request thread's lambda calls worker->NewJob.  The lambda captures
\* context and empty by reference and both are destroyed at the end of the
\* loop iteration that spawned the thread, so the call uses dead objects:
\* either it goes out as intended or the master process dies.  A call that
\* goes out starts WorkerImpl::NewJob, unless the worker process is gone or
\* dies in kernel binding (LOG(FATAL)).
Req_Call(w) ==
  /\ MasterUp
  /\ requests[w] = "running"
  /\ w_pc[w] \in {"idle", "crashed"}
  /\ \E outcome \in {"sent", "worker_fatal", "master_dies"} :
       /\ outcome = "worker_fatal" => w_pc[w] = "idle"
       /\ m_pc' = IF outcome = "master_dies" THEN "aborted" ELSE m_pc
       /\ requests' = IF outcome = "master_dies" THEN requests
                      ELSE [requests EXCEPT ![w] = "called"]
       /\ IF outcome = "sent" /\ w_pc[w] = "idle"
          THEN WorkerSetup(w)
          ELSE /\ w_pc' = IF outcome = "worker_fatal"
                          THEN [w_pc EXCEPT ![w] = "crashed"] ELSE w_pc
               /\ UNCHANGED <<node_id_, next_item, accepted_items,
                              retired_items, queue_vars, thread_vars,
                              pushed, saved, pu_order>>
  /\ UNCHANGED <<plan_vars, bind_vars, workers_, next_io_item_to_allocate_, num_io_items_,
                 job_name, jobs_started, fan_i, join_i,
                 database_metadata, job_descriptors, new_job_status, nio_vars>>

\* the locals of WorkerImpl::NewJob are gone once it has returned
WorkerRelease(w) ==
  /\ accepted_items' = [accepted_items EXCEPT ![w] = 0]
  /\ retired_items' = [retired_items EXCEPT ![w] = 0]
  /\ load_work' = [load_work EXCEPT ![w] = <<>>]
  /\ initial_eval_work' = [initial_eval_work EXCEPT ![w] = <<>>]
  /\ eval_work' = [eval_work EXCEPT
                     ![w] = [pu \in PUs |-> [q \in 0..2 |-> <<>>]]]
  /\ save_work' = [save_work EXCEPT ![w] = <<>>]
  /\ load_threads' = [load_threads EXCEPT ![w] = [i \in LoadIds |-> "none"]]
  /\ pre_eval_threads' = [pre_eval_threads EXCEPT ![w] = [pu \in PUs |-> "none"]]
  /\ eval_threads' = [eval_threads EXCEPT ![w] = [pu \in PUs |-> "none"]]
  /\ post_eval_threads' = [post_eval_threads EXCEPT ![w] = [pu \in PUs |-> "none"]]
  /\ save_threads' = [save_threads EXCEPT ![w] = [i \in SaveIds |-> "none"]]
  /\ pushed' = [pushed EXCEPT ![w] = <<>>]
  /\ saved' = [saved EXCEPT ![w] = <<>>]
  /\ pu_order' = [pu_order EXCEPT ![w] = NoOrder]

\* worker->NewJob returns in the request thread: OK from a worker that
\* returned, an RPC failure from a worker process that died
Req_Return(w) ==
  /\ MasterUp
  /\ requests[w] = "called"
  /\ w_pc[w] \in {"returned", "crashed"}
  /\ requests' = [requests EXCEPT
                    ![w] = IF w_pc[w] = "returned" THEN "ok" ELSE "failed"]
  /\ w_pc' = [w_pc EXCEPT ![w] = IF w_pc[w] = "returned" THEN "idle" ELSE "crashed"]
  /\ WorkerRelease(w)
  /\ UNCHANGED <<plan_vars, bind_vars, workers_, next_io_item_to_allocate_, num_io_items_,
                 m_pc, job_name, jobs_started, fan_i, join_i,
                 database_metadata, job_descriptors, new_job_status, nio_vars,
                 node_id_, next_item>>

(***************************************************************************)
(* MasterImpl::NextIOItem, one invocation per calling worker.  The handler *)
(* takes no lock: the comparison, the read for the reply and the           *)
(* increment are separate accesses to next_io_item_to_allocate_, each of   *)
(* which the build may serve from memory or from the value it loaded at    *)
(* the comparison.                                                         *)
(***************************************************************************)
\* if (next_io_item_to_allocate_ < num_io_items_)
HasNext(cursor, num) == cursor < num

NIO_Check(w) ==
  /\ MasterUp
  /\ nio_pc[w] = "check"
  /\ IF HasNext(next_io_item_to_allocate_, num_io_items_)
     THEN /\ nio_pc' = [nio_pc EXCEPT ![w] = "set"]
          /\ nio_reg' = [nio_reg EXCEPT ![w] = next_io_item_to_allocate_]
          /\ UNCHANGED <<handed_out, next_item, w_pc>>
     ELSE \* io_item->set_item_id(-1); return
          /\ nio_pc' = [nio_pc EXCEPT ![w] = "none"]
          /\ next_item' = [next_item EXCEPT ![w] = -1]
          /\ handed_out' = Append(handed_out, <<w, -1>>)
          /\ w_pc' = [w_pc EXCEPT ![w] = "reply"]
          /\ UNCHANGED nio_reg
  /\ UNCHANGED <<plan_vars, bind_vars, master_vars, node_id_, accepted_items,
                 retired_items, queue_vars, thread_vars, pushed, saved, pu_order>>

\* io_item->set_item_id(next_io_item_to_allocate_)
NIO_Set(w) ==
  /\ MasterUp
  /\ nio_pc[w] = "set"
  /\ \E v \in {nio_reg[w], next_io_item_to_allocate_} :
       next_item' = [next_item EXCEPT ![w] = v]
  /\ nio_pc' = [nio_pc EXCEPT ![w] = "inc"]
  /\ UNCHANGED <<plan_vars, bind_vars, master_vars, nio_reg, handed_out, node_id_, w_pc,
                 accepted_items, retired_items, queue_vars, thread_vars,
                 pushed, saved, pu_order>>

\* ++next_io_item_to_allocate_; return grpc::Status::OK
NIO_Inc(w) ==
  /\ MasterUp
  /\ nio_pc[w] = "inc"
  /\ \E v \in {nio_reg[w], next_io_item_to_allocate_} :
       next_io_item_to_allocate_' = v + 1
  /\ nio_pc' = [nio_pc EXCEPT ![w] = "none"]
  /\ handed_out' = Append(handed_out, <<w, next_item[w]>>)
  /\ nio_reg' = [nio_reg EXCEPT ![w] = 0]
  /\ w_pc' = [w_pc EXCEPT ![w] = "reply"]
  /\ UNCHANGED <<plan_vars, bind_vars, workers_, num_io_items_, m_pc, job_name,
                 jobs_started, requests, fan_i, join_i, database_metadata,
                 job_descriptors, new_job_status, node_id_, next_item,
                 accepted_items, retired_items, queue_vars, thread_vars,
                 pushed, saved, pu_order>>

(***************************************************************************)
(* WorkerImpl::NewJob: control loop                                        *)
(***************************************************************************)
InFlightCap == PUS_PER_NODE * TASKS_IN_QUEUE_PER_PU

MayRequest_Inclusive(accepted, retired) == accepted - retired <= InFlightCap

\* i32 local_work = accepted_items - retired_items;
\* if (local_work < PUS_PER_NODE * TASKS_IN_QUEUE_PER_PU)
MayRequest(accepted, retired) == accepted - retired < InFlightCap

\* the reply the worker reads when the call does not reach a master: the
\* status of the call is not looked at and io_item keeps its default
DefaultItemId == 0

\* the loop test passes and the worker sends master_->NextIOItem; when the
\* test fails the loop only yields and tests again
Ctl_Check(w) ==
  /\ w_pc[w] = "loop"
  /\ MayRequest(accepted_items[w], retired_items[w])
  /\ IF MasterUp
     THEN /\ w_pc' = [w_pc EXCEPT ![w] = "rpc"]
          /\ nio_pc' = [nio_pc EXCEPT ![w] = "check"]
          /\ UNCHANGED next_item
     ELSE /\ w_pc' = [w_pc EXCEPT ![w] = "reply"]
          /\ next_item' = [next_item EXCEPT ![w] = DefaultItemId]
          /\ UNCHANGED nio_pc
  /\ UNCHANGED <<plan_vars, bind_vars, master_vars, nio_reg, handed_out, node_id_,
                 accepted_items, retired_items, queue_vars,
                 thread_vars, pushed, saved, pu_order>>

\* the worker's own load_work_entries, planned from the same job parameters
WorkerLoadWork == create_io_items(task_set).load_work_entries

\* what load_work_entries[next_item] yields: the planned entry, or, past the
\* end of the vector, a crash or an entry with arbitrary content
EntriesAt(id) ==
  IF id >= 0 /\ id < Len(WorkerLoadWork)
  THEN {[crash |-> FALSE, io_item_index |-> WorkerLoadWork[id + 1].io_item_index]}
  ELSE {[crash |-> TRUE, io_item_index |-> id]}
       \cup {[crash |-> FALSE, io_item_index |-> g] : g \in {Sentinel, id}}

\* i32 next_item = io_item.item_id(); break on -1, else push and count;
\* io_item and next_item end with the iteration
Ctl_Reply(w) ==
  /\ w_pc[w] = "reply"
  /\ IF next_item[w] = -1
     THEN /\ w_pc' = [w_pc EXCEPT ![w] = "push_load"]
          /\ UNCHANGED <<load_work, accepted_items, pushed>>
     ELSE \E e \in EntriesAt(next_item[w]) :
            IF e.crash
            THEN /\ w_pc' = [w_pc EXCEPT ![w] = "crashed"]
                 /\ UNCHANGED <<load_work, accepted_items, pushed>>
            ELSE /\ load_work' = [load_work EXCEPT ![w] = Append(@, e.io_item_index)]
                 /\ accepted_items' = [accepted_items EXCEPT ![w] = @ + 1]
                 /\ pushed' = [pushed EXCEPT ![w] =
                                 IF e.io_item_index = Sentinel THEN @
                                 ELSE Append(@, e.io_item_index)]
                 /\ w_pc' = [w_pc EXCEPT ![w] = "loop"]
  /\ next_item' = [next_item EXCEPT ![w] = 0]
  /\ UNCHANGED <<plan_vars, bind_vars, master_vars, nio_vars, node_id_,
                 retired_items, initial_eval_work, eval_work, save_work,
                 thread_vars, saved, pu_order>>

(***************************************************************************)
(* Stage threads.  Each thread pops its input queue, exits on a sentinel   *)
(* and otherwise pushes the entry into its output queue; the queues are    *)
(* the ones WorkerImpl::NewJob passes in the thread arguments.             *)
(***************************************************************************)
Alive(w) == w_pc[w] \notin {"down", "idle", "crashed", "returned"}

\* load thread i: load_work -> initial_eval_work
LoadThread(w, i) ==
  /\ Alive(w)
  /\ load_threads[w][i] = "running"
  /\ load_work[w] # <<>>
  /\ load_work' = [load_work EXCEPT ![w] = Tail(@)]
  /\ IF Head(load_work[w]) = Sentinel
     THEN /\ load_threads' = [load_threads EXCEPT ![w][i] = "exited"]
          /\ UNCHANGED initial_eval_work
     ELSE /\ initial_eval_work' =
               [initial_eval_work EXCEPT ![w] = Append(@, Head(load_work[w]))]
          /\ UNCHANGED load_threads
  /\ UNCHANGED <<plan_vars, bind_vars, master_vars, nio_vars, node_id_, w_pc, next_item,
                 accepted_items, retired_items, eval_work, save_work,
                 pre_eval_threads, eval_threads, post_eval_threads,
                 save_threads, pushed, saved, pu_order>>

\* Queue<EvalWorkEntry>* output_work_queue = &work_queues[0];  (pre-eval)
PreEvalOutputQueue == 0
\* Queue<EvalWorkEntry>* input_work_queue = &work_queues[1];   (eval)
EvalInputQueue == 1
\* Queue<EvalWorkEntry>* output_work_queue = &work_queues[2];  (eval)
EvalOutputQueue == 2
\* Queue<EvalWorkEntry>* input_work_queue = &work_queues[2];   (post-eval)
PostEvalInputQueue == 2

\* pre-eval thread of a PU: initial_eval_work -> work_queues[0] of the PU
PreEvalThread(w, pu) ==
  /\ Alive(w)
  /\ pre_eval_threads[w][pu] = "running"
  /\ initial_eval_work[w] # <<>>
  /\ initial_eval_work' = [initial_eval_work EXCEPT ![w] = Tail(@)]
  /\ IF Head(initial_eval_work[w]) = Sentinel
     THEN /\ pre_eval_threads' = [pre_eval_threads EXCEPT ![w][pu] = "exited"]
          /\ UNCHANGED <<eval_work, pu_order>>
     ELSE /\ eval_work' = [eval_work EXCEPT ![w][pu][PreEvalOutputQueue] =
                             Append(@, Head(initial_eval_work[w]))]
          /\ pu_order' = [pu_order EXCEPT ![w][pu].pre_eval =
                            Append(@, Head(initial_eval_work[w]))]
          /\ UNCHANGED pre_eval_threads
  /\ UNCHANGED <<plan_vars, bind_vars, master_vars, nio_vars, node_id_, w_pc, next_item,
                 accepted_items, retired_items, load_work, save_work,
                 load_threads, eval_threads, post_eval_threads, save_threads,
                 pushed, saved>>

\* eval thread of a PU: work_queues[1] -> work_queues[2]
EvalThread(w, pu) ==
  /\ Alive(w)
  /\ eval_threads[w][pu] = "running"
  /\ eval_work[w][pu][EvalInputQueue] # <<>>
  /\ LET e == Head(eval_work[w][pu][EvalInputQueue]) IN
       IF e = Sentinel
       THEN /\ eval_threads' = [eval_threads EXCEPT ![w][pu] = "exited"]
            /\ eval_work' = [eval_work EXCEPT ![w][pu][EvalInputQueue] = Tail(@)]
            /\ UNCHANGED pu_order
       ELSE /\ eval_work' = [eval_work EXCEPT
                               ![w][pu] = [[@ EXCEPT ![EvalInputQueue] = Tail(@)]
                                             EXCEPT ![EvalOutputQueue] = Append(@, e)]]
            /\ pu_order' = [pu_order EXCEPT ![w][pu].eval = Append(@, e)]
            /\ UNCHANGED eval_threads
  /\ UNCHANGED <<plan_vars, bind_vars, master_vars, nio_vars, node_id_, w_pc, next_item,
                 accepted_items, retired_items, load_work, initial_eval_work,
                 save_work, load_threads, pre_eval_threads, post_eval_threads,
                 save_threads, pushed, saved>>

\* post-eval thread of a PU: work_queues[2] -> save_work
PostEvalThread(w, pu) ==
  /\ Alive(w)
  /\ post_eval_threads[w][pu] = "running"
  /\ eval_work[w][pu][PostEvalInputQueue] # <<>>
  /\ eval_work' = [eval_work EXCEPT ![w][pu][PostEvalInputQueue] = Tail(@)]
  /\ IF Head(eval_work[w][pu][PostEvalInputQueue]) = Sentinel
     THEN /\ post_eval_threads' = [post_eval_threads EXCEPT ![w][pu] = "exited"]
          /\ UNCHANGED <<save_work, pu_order>>
     ELSE /\ save_work' = [save_work EXCEPT ![w] =
                             Append(@, Head(eval_work[w][pu][PostEvalInputQueue]))]
          /\ pu_order' =
               [pu_order EXCEPT
                  ![w][pu].post_eval =
                     Append(@, Head(eval_work[w][pu][PostEvalInputQueue])),
                  ![w][pu].save =
                     Append(@, Head(eval_work[w][pu][PostEvalInputQueue]))]
          /\ UNCHANGED post_eval_threads
  /\ UNCHANGED <<plan_vars, bind_vars, master_vars, nio_vars, node_id_, w_pc, next_item,
                 accepted_items, retired_items, load_work, initial_eval_work,
                 load_threads, pre_eval_threads, eval_threads, save_threads,
                 pushed, saved>>

\* save thread i: save_work -> store; one write and one retired_items++ per
\* entry
SaveThread(w, i) ==
  /\ Alive(w)
  /\ save_threads[w][i] = "running"
  /\ save_work[w] # <<>>
  /\ save_work' = [save_work EXCEPT ![w] = Tail(@)]
  /\ IF Head(save_work[w]) = Sentinel
     THEN /\ save_threads' = [save_threads EXCEPT ![w][i] = "exited"]
          /\ UNCHANGED <<saved, retired_items>>
     ELSE /\ saved' = [saved EXCEPT ![w] = Append(@, Head(save_work[w]))]
          /\ retired_items' = [retired_items EXCEPT ![w] = @ + 1]
          /\ UNCHANGED save_threads
  /\ UNCHANGED <<plan_vars, bind_vars, master_vars, nio_vars, node_id_, w_pc, next_item,
                 accepted_items, load_work, initial_eval_work, eval_work,
                 load_threads, pre_eval_threads, eval_threads,
                 post_eval_threads, pushed, pu_order>>

(***************************************************************************)
(* A stage thread that fails on an entry: the entry it popped is lost and  *)
(* the thread terminates.                                                  *)
(***************************************************************************)
Stages == {"load", "pre_eval", "eval", "post_eval", "save"}

ThreadsOf(w, st) ==
  CASE st = "load" -> load_threads[w]
    [] st = "pre_eval" -> pre_eval_threads[w]
    [] st = "eval" -> eval_threads[w]
    [] st = "post_eval" -> post_eval_threads[w]
    [] st = "save" -> save_threads[w]

\* the input queue of thread k of a stage
InputOf(w, st, k) ==
  CASE st = "load" -> load_work[w]
    [] st = "pre_eval" -> initial_eval_work[w]
    [] st = "eval" -> eval_work[w][k][EvalInputQueue]
    [] st = "post_eval" -> eval_work[w][k][PostEvalInputQueue]
    [] st = "save" -> save_work[w]

Failed(threads, k) == [threads EXCEPT ![k] = "failed"]

StageThreadFails(w) ==
  /\ Alive(w)
  /\ \E st \in Stages : \E k \in DOMAIN ThreadsOf(w, st) :
       /\ ThreadsOf(w, st)[k] = "running"
       /\ InputOf(w, st, k) # <<>>
       /\ Head(InputOf(w, st, k)) # Sentinel
       /\ load_work' = IF st = "load"
                        THEN [load_work EXCEPT ![w] = Tail(@)] ELSE load_work
       /\ initial_eval_work' =
            IF st = "pre_eval"
            THEN [initial_eval_work EXCEPT ![w] = Tail(@)]
            ELSE initial_eval_work
       /\ eval_work' =
            IF st = "eval"
            THEN [eval_work EXCEPT ![w][k][EvalInputQueue] = Tail(@)]
            ELSE IF st = "post_eval"
            THEN [eval_work EXCEPT ![w][k][PostEvalInputQueue] = Tail(@)]
            ELSE eval_work
       /\ save_work' = IF st = "save"
                        THEN [save_work EXCEPT ![w] = Tail(@)] ELSE save_work
       /\ load_threads' =
            IF st = "load"
            THEN [load_threads EXCEPT ![w] = Failed(@, k)] ELSE load_threads
       /\ pre_eval_threads' =
            IF st = "pre_eval"
            THEN [pre_eval_threads EXCEPT ![w] = Failed(@, k)]
            ELSE pre_eval_threads
       /\ eval_threads' =
            IF st = "eval"
            THEN [eval_threads EXCEPT ![w] = Failed(@, k)] ELSE eval_threads
       /\ post_eval_threads' =
            IF st = "post_eval"
            THEN [post_eval_threads EXCEPT ![w] = Failed(@, k)]
            ELSE post_eval_threads
       /\ save_threads' =
            IF st = "save"
            THEN [save_threads EXCEPT ![w] = Failed(@, k)] ELSE save_threads
  /\ UNCHANGED <<plan_vars, bind_vars, master_vars, nio_vars, node_id_, w_pc, next_item,
                 accepted_items, retired_items, pushed, saved, pu_order>>

(***************************************************************************)
(* WorkerImpl::NewJob: sentinel cascade, profiler write, return            *)
(***************************************************************************)
Sentinels_OneMore(n) == [k \in 1..(n + 1) |-> Sentinel]

\* one sentinel entry per thread of the stage
Sentinels(n) == [k \in 1..n |-> Sentinel]

\* pthread_join returns for a thread that has terminated, in whatever way
AllExited(threads) ==
  \A i \in DOMAIN threads : threads[i] \in {"exited", "failed"}

\* what the cascade steps leave alone
CascadeUnchanged ==
  UNCHANGED <<plan_vars, bind_vars, master_vars, nio_vars, node_id_, next_item,
              accepted_items, retired_items, thread_vars, pushed, saved, pu_order>>

\* for (i < LOAD_WORKERS_PER_NODE) load_work.push(sentinel)
PushLoadSentinels(w) ==
  /\ w_pc[w] = "push_load"
  /\ load_work' = [load_work EXCEPT ![w] = @ \o Sentinels(LOAD_WORKERS_PER_NODE)]
  /\ w_pc' = [w_pc EXCEPT ![w] = "join_load"]
  /\ UNCHANGED <<initial_eval_work, eval_work, save_work>>
  /\ CascadeUnchanged

\* for (i < LOAD_WORKERS_PER_NODE) pthread_join(load_threads[i])
JoinLoad(w) ==
  /\ w_pc[w] = "join_load"
  /\ AllExited(load_threads[w])
  /\ w_pc' = [w_pc EXCEPT ![w] = "push_pre"]
  /\ UNCHANGED queue_vars
  /\ CascadeUnchanged

\* for (i < PUS_PER_NODE) initial_eval_work.push(sentinel)
PushPreEvalSentinels(w) ==
  /\ w_pc[w] = "push_pre"
  /\ initial_eval_work' = [initial_eval_work EXCEPT ![w] = @ \o Sentinels(PUS_PER_NODE)]
  /\ w_pc' = [w_pc EXCEPT ![w] = "join_pre"]
  /\ UNCHANGED <<load_work, eval_work, save_work>>
  /\ CascadeUnchanged

JoinPreEval(w) ==
  /\ w_pc[w] = "join_pre"
  /\ AllExited(pre_eval_threads[w])
  /\ w_pc' = [w_pc EXCEPT ![w] = "push_eval"]
  /\ UNCHANGED queue_vars
  /\ CascadeUnchanged

\* for (pu < PUS_PER_NODE) eval_work[pu][1].push(sentinel)
PushEvalSentinels(w) ==
  /\ w_pc[w] = "push_eval"
  /\ eval_work' = [eval_work EXCEPT ![w] =
        [pu \in PUs |-> [@[pu] EXCEPT ![1] = Append(@, Sentinel)]]]
  /\ w_pc' = [w_pc EXCEPT ![w] = "join_eval"]
  /\ UNCHANGED <<load_work, initial_eval_work, save_work>>
  /\ CascadeUnchanged

JoinEval(w) ==
  /\ w_pc[w] = "join_eval"
  /\ AllExited(eval_threads[w])
  /\ w_pc' = [w_pc EXCEPT ![w] = "push_post"]
  /\ UNCHANGED queue_vars
  /\ CascadeUnchanged

\* for (pu < PUS_PER_NODE) eval_work[pu][2].push(sentinel)
PushPostEvalSentinels(w) ==
  /\ w_pc[w] = "push_post"
  /\ eval_work' = [eval_work EXCEPT ![w] =
        [pu \in PUs |-> [@[pu] EXCEPT ![2] = Append(@, Sentinel)]]]
  /\ w_pc' = [w_pc EXCEPT ![w] = "join_post"]
  /\ UNCHANGED <<load_work, initial_eval_work, save_work>>
  /\ CascadeUnchanged

JoinPostEval(w) ==
  /\ w_pc[w] = "join_post"
  /\ AllExited(post_eval_threads[w])
  /\ w_pc' = [w_pc EXCEPT ![w] = "push_save"]
  /\ UNCHANGED queue_vars
  /\ CascadeUnchanged

\* for (i < SAVE_WORKERS_PER_NODE) save_work.push(sentinel)
PushSaveSentinels(w) ==
  /\ w_pc[w] = "push_save"
  /\ save_work' = [save_work EXCEPT ![w] = @ \o Sentinels(SAVE_WORKERS_PER_NODE)]
  /\ w_pc' = [w_pc EXCEPT ![w] = "join_save"]
  /\ UNCHANGED <<load_work, initial_eval_work, eval_work>>
  /\ CascadeUnchanged

JoinSave(w) ==
  /\ w_pc[w] = "join_save"
  /\ AllExited(save_threads[w])
  /\ w_pc' = [w_pc EXCEPT ![w] = "profiler"]
  /\ UNCHANGED queue_vars
  /\ CascadeUnchanged

\* BACKOFF_FAIL(make_unique_write_file(...)); ...; BACKOFF_FAIL(save());
\* return grpc::Status::OK -- or the process exits when the store keeps
\* failing
WriteProfiler(w) ==
  /\ w_pc[w] = "profiler"
  /\ \E store_ok \in BOOLEAN :
       w_pc' = [w_pc EXCEPT ![w] = IF store_ok THEN "returned" ELSE "crashed"]
  /\ UNCHANGED queue_vars
  /\ CascadeUnchanged

(***************************************************************************)
(* The cascade as one step, for the specifications that follow the master  *)
(* and do not schedule the stage threads of the workers: from the exit of  *)
(* the control loop to the last pthread_join.                              *)
(***************************************************************************)
SentinelCascade(w) ==
  /\ w_pc[w] = "push_load"
  /\ w_pc' = [w_pc EXCEPT ![w] = "profiler"]
  /\ load_threads' = [load_threads EXCEPT ![w] = [i \in LoadIds |-> "exited"]]
  /\ pre_eval_threads' = [pre_eval_threads EXCEPT ![w] = [pu \in PUs |-> "exited"]]
  /\ eval_threads' = [eval_threads EXCEPT ![w] = [pu \in PUs |-> "exited"]]
  /\ post_eval_threads' = [post_eval_threads EXCEPT ![w] = [pu \in PUs |-> "exited"]]
  /\ save_threads' = [save_threads EXCEPT ![w] = [i \in SaveIds |-> "exited"]]
  /\ UNCHANGED <<plan_vars, bind_vars, master_vars, nio_vars, node_id_, next_item,
                 accepted_items, retired_items, queue_vars, pushed, saved, pu_order>>

(***************************************************************************)
(* Specifications.  Every specification follows the system while the       *)
(* master process is alive.                                                *)
(***************************************************************************)
Init ==
  /\ task_set = <<>>
  /\ plan_status = "input"
  /\ io_items = <<>>
  /\ load_work_entries = <<>>
  /\ worker_plan = NotPlanned
  /\ NotBinding
  /\ SysInit

MasterStep ==
  \/ \E ts \in JobTaskSets : M_NewJob(ts)
  \/ M_Spawn
  \/ M_Join
  \/ M_WriteDatabaseMetadata
  \/ M_WriteJobMetadata

RequestStep(w) ==
  \/ Req_Call(w)
  \/ Req_Return(w)

HandlerStep(w) ==
  \/ NIO_Check(w)
  \/ NIO_Set(w)
  \/ NIO_Inc(w)

ThreadStep(w) ==
  \/ \E i \in LoadIds : LoadThread(w, i)
  \/ \E pu \in PUs : PreEvalThread(w, pu)
  \/ \E pu \in PUs : EvalThread(w, pu)
  \/ \E pu \in PUs : PostEvalThread(w, pu)
  \/ \E i \in SaveIds : SaveThread(w, i)

CascadeStep(w) ==
  \/ PushLoadSentinels(w)
  \/ JoinLoad(w)
  \/ PushPreEvalSentinels(w)
  \/ JoinPreEval(w)
  \/ PushEvalSentinels(w)
  \/ JoinEval(w)
  \/ PushPostEvalSentinels(w)
  \/ JoinPostEval(w)
  \/ PushSaveSentinels(w)
  \/ JoinSave(w)

\* Spec: the master, its NextIOItem handlers running concurrently, and the
\* workers seen from the master: control loop, cascade, profiler, return
Next ==
  \/ \E w \in Workers : RegisterWorker(w)
  \/ MasterStep
  \/ \E w \in Workers : RequestStep(w)
  \/ \E w \in Workers : Ctl_Check(w)
  \/ \E w \in Workers : HandlerStep(w)
  \/ \E w \in Workers : Ctl_Reply(w)
  \/ \E w \in Workers : SentinelCascade(w)
  \/ \E w \in Workers : WriteProfiler(w)

Spec == Init /\ [][Next]_vars

\* SpecSerial: as Spec, with the calls of NextIOItem handled one at a time
NoHandlerRunning == \A v \in Workers : nio_pc[v] = "none"

Ctl_CheckSerial(w) == NoHandlerRunning /\ Ctl_Check(w)

SerialNext ==
  \/ \E w \in Workers : RegisterWorker(w)
  \/ MasterStep
  \/ \E w \in Workers : RequestStep(w)
  \/ \E w \in Workers : Ctl_CheckSerial(w)
  \/ \E w \in Workers : HandlerStep(w)
  \/ \E w \in Workers : Ctl_Reply(w)
  \/ \E w \in Workers : SentinelCascade(w)
  \/ \E w \in Workers : WriteProfiler(w)

SpecSerial == Init /\ [][SerialNext]_vars

\* SpecWorker: one registered worker with its stage threads and the cascade
\* step by step, and the master that serves it
TheWorker == CHOOSE w \in Workers : \A v \in Workers : w <= v

WorkerInit ==
  /\ task_set = <<>>
  /\ plan_status = "input"
  /\ io_items = <<>>
  /\ load_work_entries = <<>>
  /\ worker_plan = NotPlanned
  /\ NotBinding
  /\ workers_ = <<TheWorker>>
  /\ next_io_item_to_allocate_ = 0
  /\ num_io_items_ = 0
  /\ m_pc = "idle"
  /\ job_name = 0
  /\ jobs_started = 0
  /\ requests = [w \in Workers |-> "none"]
  /\ fan_i = 0
  /\ join_i = 0
  /\ database_metadata = <<>>
  /\ job_descriptors = <<>>
  /\ new_job_status = "none"
  /\ nio_pc = [w \in Workers |-> "none"]
  /\ nio_reg = [w \in Workers |-> 0]
  /\ handed_out = <<>>
  /\ node_id_ = [w \in Workers |-> IF w = TheWorker THEN RegistrationNodeId(<<>>) ELSE -1]
  /\ w_pc = [w \in Workers |-> IF w = TheWorker THEN "idle" ELSE "down"]
  /\ next_item = [w \in Workers |-> 0]
  /\ accepted_items = [w \in Workers |-> 0]
  /\ retired_items = [w \in Workers |-> 0]
  /\ load_work = [w \in Workers |-> <<>>]
  /\ initial_eval_work = [w \in Workers |-> <<>>]
  /\ eval_work = [w \in Workers |-> [pu \in PUs |-> [q \in 0..2 |-> <<>>]]]
  /\ save_work = [w \in Workers |-> <<>>]
  /\ load_threads = [w \in Workers |-> [i \in LoadIds |-> "none"]]
  /\ pre_eval_threads = [w \in Workers |-> [pu \in PUs |-> "none"]]
  /\ eval_threads = [w \in Workers |-> [pu \in PUs |-> "none"]]
  /\ post_eval_threads = [w \in Workers |-> [pu \in PUs |-> "none"]]
  /\ save_threads = [w \in Workers |-> [i \in SaveIds |-> "none"]]
  /\ pushed = [w \in Workers |-> <<>>]
  /\ saved = [w \in Workers |-> <<>>]
  /\ pu_order = [w \in Workers |-> NoOrder]

WorkerNext ==
  \/ MasterStep
  \/ RequestStep(TheWorker)
  \/ Ctl_Check(TheWorker)
  \/ HandlerStep(TheWorker)
  \/ Ctl_Reply(TheWorker)
  \/ ThreadStep(TheWorker)
  \/ CascadeStep(TheWorker)
  \/ WriteProfiler(TheWorker)

SpecWorker == WorkerInit /\ [][WorkerNext]_vars

FairSpecWorker == SpecWorker /\ WF_vars(WorkerNext)

\* SpecFaulty: as SpecWorker, with stage threads that may fail on an entry;
\* the steps of the worker and of its threads that have not failed are fair
FaultyNext ==
  \/ WorkerNext
  \/ StageThreadFails(TheWorker)

SpecFaulty == WorkerInit /\ [][FaultyNext]_vars

FairSpecFaulty == SpecFaulty /\ WF_vars(WorkerNext)

(***************************************************************************)
(* Claims about the planner                                                *)
(***************************************************************************)
Planned == plan_status \in {"ok", "out_of_bounds"}

\* the planned items of task index i (0-based), in item order
ItemsOfTask(i) == SelectSeq(io_items, LAMBDA it : it.table_id = i)

RowsOfTask(i) == Len(task_set[i + 1].samples[1].rows)

CeilDiv(n, d) == (n + d - 1) \div d

\* C9: for every task with N rows the planned items, in item_id order, are
\* contiguous ranges that start at 0, end at N, each starting where the
\* previous one ended; every row index in 0..N-1 lies in exactly one item.
C9_ItemsCoverTaskOnce ==
  Planned =>
    \A i \in 0..(Len(task_set) - 1) :
      LET its == ItemsOfTask(i)
          N == RowsOfTask(i)
      IN /\ \A k \in 1..Len(its) : its[k].item_id = k - 1
         /\ N > 0 => /\ Len(its) > 0
                     /\ its[1].start_row = 0
                     /\ its[Len(its)].end_row = N
         /\ \A k \in 2..Len(its) : its[k].start_row = its[k - 1].end_row
         /\ \A r \in 0..(N - 1) :
              Cardinality({k \in 1..Len(its) :
                 its[k].start_row <= r /\ r < its[k].end_row}) = 1

\* a task whose rows do not divide evenly was planned into several items
C9_Witness ==
  /\ Planned
  /\ \E i \in 0..(Len(task_set) - 1) :
       /\ RowsOfTask(i) = IO_ITEM_SIZE + 1
       /\ Len(ItemsOfTask(i)) = 2
       /\ ItemsOfTask(i)[2].start_row = IO_ITEM_SIZE

\* C10: a task with N rows yields exactly ceil(N / IO_ITEM_SIZE) items with
\* item_id 0,1,2,... restarting in each task and table_id the task index;
\* every item holds between 1 and IO_ITEM_SIZE rows, all but the last of a
\* task hold exactly IO_ITEM_SIZE, and N <= IO_ITEM_SIZE gives a single item.
C10_ItemCountAndSizes ==
  Planned =>
    /\ \A k \in 1..Len(io_items) :
         /\ io_items[k].table_id \in 0..(Len(task_set) - 1)
         /\ 0 < io_items[k].end_row - io_items[k].start_row
         /\ io_items[k].end_row - io_items[k].start_row <= IO_ITEM_SIZE
    /\ \A i \in 0..(Len(task_set) - 1) :
         LET its == ItemsOfTask(i)
             N == RowsOfTask(i)
         IN /\ Len(its) = CeilDiv(N, IO_ITEM_SIZE)
            /\ \A k \in 1..Len(its) : its[k].item_id = k - 1
            /\ \A k \in 1..(Len(its) - 1) :
                 its[k].end_row - its[k].start_row = IO_ITEM_SIZE
            /\ (0 < N /\ N <= IO_ITEM_SIZE) => Len(its) = 1
    \* items of different tasks appear in task order
    /\ \A k \in 2..Len(io_items) :
         io_items[k - 1].table_id <= io_items[k].table_id

\* two tasks were planned, the second with a short last item; item_id
\* restarted at 0 in the second task
C10_Witness ==
  /\ Planned
  /\ Len(task_set) = 2
  /\ RowsOfTask(0) = IO_ITEM_SIZE
  /\ RowsOfTask(1) = IO_ITEM_SIZE + 1
  /\ Len(io_items) = 3
  /\ io_items[2].item_id = 0
  /\ io_items[3].item_id = 1
  /\ io_items[3].end_row - io_items[3].start_row = 1

\* the task an item was planned from
TaskOfItem(k) == task_set[io_items[k].table_id + 1]

\* C11: for every load-work entry matching an item (start_row, end_row) and
\* every sample k of its task, the entry's sample k carries the job_id,
\* table_id and column_ids of the task's sample k, and its rows are the
\* sample's rows at positions s..end_row-1 in order, s = max(start_row -
\* warmup, 0); it holds end_row - s rows and reads no negative position.
C11_LoadEntriesCopyRows ==
  Planned =>
    /\ Len(load_work_entries) = Len(io_items)
    /\ \A k \in 1..Len(load_work_entries) :
         LET item == io_items[k]
             task == TaskOfItem(k)
             e == load_work_entries[k]
             s == Max(item.start_row - warmup_size, 0)
         IN /\ Len(e.samples) = Len(task.samples)
            /\ s >= 0
            /\ \A j \in 1..Len(e.samples) :
                 /\ e.samples[j].job_id = task.samples[j].job_id
                 /\ e.samples[j].table_id = task.samples[j].table_id
                 /\ e.samples[j].column_ids = task.samples[j].column_ids
                 /\ Len(e.samples[j].rows) = item.end_row - s
                 /\ Len(task.samples[j].rows) >= item.end_row
                 /\ e.samples[j].rows =
                      SubSeq(task.samples[j].rows, s + 1, item.end_row)

\* a single task with one sample whose rows need exactly two items
TwoItemTask ==
  /\ Planned
  /\ Len(task_set) = 1
  /\ Len(task_set[1].samples) = 1
  /\ RowsOfTask(0) > IO_ITEM_SIZE
  /\ RowsOfTask(0) <= 2 * IO_ITEM_SIZE

PlannerRan == plan_status # "input"

\* C13: the planner rejects a task whose first sample has zero rows: planning
\* such a task set yields an error outcome, not zero items for that task.
C13_ZeroRowTaskRejected ==
  (/\ PlannerRan
   /\ \E i \in 1..Len(task_set) :
        /\ Len(task_set[i].samples) > 0
        /\ Len(task_set[i].samples[1].rows) = 0)
  => ~Planned

\* some task has two samples with different numbers of rows
MismatchedSamples ==
  \E i \in 1..Len(task_set) :
     \E j, k \in 1..Len(task_set[i].samples) :
        Len(task_set[i].samples[j].rows) # Len(task_set[i].samples[k].rows)

\* C14: the planner rejects a task whose samples do not all have the same
\* number of rows, before any item or entry of the job is used; it never
\* reads a row position past the end of a shorter sample.
C14_MismatchedSamplesRejected ==
  /\ plan_status # "out_of_bounds"
  /\ (PlannerRan /\ MismatchedSamples) => ~Planned

\* C15: planning is deterministic: for the same task set the planner run by
\* the master and the planner run by a worker produce identical io_items and
\* load-work arrays.
C15_PlannerDeterministic ==
  worker_plan # NotPlanned =>
     /\ worker_plan.status = plan_status
     /\ worker_plan.io_items = io_items
     /\ worker_plan.load_work_entries = load_work_entries

(***************************************************************************)
(* Claims about the master's work allocation                               *)
(***************************************************************************)
\* the IDs NextIOItem has returned in the current job, in order of return
Replies == [k \in 1..Len(handed_out) |-> handed_out[k][2]]

RepliedBefore(k) == { Replies[j] : j \in 1..(k - 1) }

Range(f) == { f[x] : x \in DOMAIN f }

\* C1: within one job, for any interleaving of concurrent NextIOItem calls,
\* every ID in [0, num_io_items) is returned to exactly one caller: no two
\* calls return the same non-negative ID, no ID outside the range is
\* returned and no ID is skipped.
C1_EachIdHandedOutOnce ==
  /\ \A i, j \in 1..Len(Replies) :
       (i # j /\ Replies[i] >= 0) => Replies[i] # Replies[j]
  /\ \A k \in 1..Len(Replies) :
       /\ Replies[k] >= 0 => Replies[k] < num_io_items_
       /\ Replies[k] > 0 => Replies[k] - 1 \in RepliedBefore(k)
       /\ Replies[k] = -1 => \A id \in 0..(num_io_items_ - 1) : id \in RepliedBefore(k)

\* C2: every Master.NewJob sets num_io_items to the number of planned items
\* and resets the cursor to 0 before fanning out, so in every job the
\* NextIOItem calls return 0, 1, ..., num_io_items-1 before the first -1.
C2_NewJobResetsCursor ==
  /\ (m_pc = "fanout" /\ fan_i = 0) =>
        /\ num_io_items_ = Len(io_items)
        /\ next_io_item_to_allocate_ = 0
  /\ \A k \in 1..Len(Replies) :
        Replies[k] = -1 =>
          \E first \in 1..k :
             /\ Replies[first] = -1
             /\ first = num_io_items_ + 1
             /\ \A j \in 1..(first - 1) : Replies[j] = j - 1

\* C3: for calls handled one after the other within one job, NextIOItem
\* returns the cursor and advances it by one while cursor < num_io_items and
\* returns -1 leaving the cursor alone otherwise; hence the k-th call of a
\* job returns k-1 for k <= num_io_items and -1 after that.
C3_SequentialRepliesAscend ==
  \A k \in 1..Len(Replies) :
     Replies[k] = IF k <= num_io_items_ THEN k - 1 ELSE -1

\* C6: if the NewJob call to any worker fails, Master.NewJob writes neither
\* the database metadata entry nor the job descriptor of that job.
C6_NoCommitAfterWorkerFailure ==
  (\E w \in Range(workers_) : requests[w] = "failed") =>
     /\ job_name \notin Range(database_metadata)
     /\ \A d \in Range(job_descriptors) : d.name # job_name

JobCommitted == job_name \in Range(database_metadata)

AllRequestsReturned ==
  /\ \A w \in Range(workers_) : requests[w] \in {"ok", "failed"}
  /\ \A w \in Workers \ Range(workers_) : requests[w] = "none"

\* C7: Master.NewJob sends NewJob to every registered worker exactly once
\* per job, and the metadata commit (metadata entry, then job descriptor
\* with the id of that entry) happens only after every one of those calls
\* has returned, whatever order the workers finish in.
C7_CommitAfterAllReturned ==
  /\ m_pc = "descriptor" => (AllRequestsReturned /\ JobCommitted)
  /\ JobCommitted => m_pc \in {"descriptor", "idle"}
  /\ (\E d \in Range(job_descriptors) : d.name = job_name) => m_pc = "idle"
  /\ m_pc \in {"join", "descriptor"} => fan_i = Len(workers_)
  /\ \A w \in Workers : requests[w] # "none" => w \in Range(workers_)
  /\ \A k \in 1..Len(job_descriptors) :
       /\ job_descriptors[k].id + 1 \in 1..Len(database_metadata)
       /\ database_metadata[job_descriptors[k].id + 1] = job_descriptors[k].name

\* a job is committed after two workers returned, one of them with a failure
C7_Witness ==
  /\ m_pc = "descriptor"
  /\ Len(workers_) = 2
  /\ requests[workers_[1]] = "failed"
  /\ requests[workers_[2]] = "ok"

\* C8: when no worker is registered, Master.NewJob goes through without
\* handing out any NextIOItem ID and still writes the database metadata
\* entry and the job descriptor.
C8_NoWorkersStillCommits ==
  workers_ = <<>> =>
     /\ handed_out = <<>>
     /\ next_io_item_to_allocate_ = 0
     /\ m_pc # "aborted"
     /\ m_pc # "idle" => ENABLED MasterStep
     /\ m_pc = "idle" =>
          /\ Len(database_metadata) = jobs_started
          /\ Len(job_descriptors) = jobs_started
          /\ \A k \in 1..jobs_started :
               /\ database_metadata[k] = k
               /\ job_descriptors[k].name = k
               /\ job_descriptors[k].num_nodes = 0

\* a job with planned items has completed on a master without workers
C8_Witness ==
  /\ workers_ = <<>>
  /\ m_pc = "idle"
  /\ jobs_started = 1
  /\ num_io_items_ > 0
  /\ Len(job_descriptors) = 1
  /\ job_descriptors[1].num_nodes = 0

(***************************************************************************)
(* Claims about one worker's pipeline                                      *)
(***************************************************************************)
QueuesOf(w) ==
  {load_work[w], initial_eval_work[w], save_work[w]}
    \cup { eval_work[w][pu][q] : pu \in PUs, q \in 0..2 }

\* C4: when a worker's NewJob returns, retired_items equals accepted_items,
\* and every non-sentinel entry the control loop pushed into the load queue
\* has produced exactly one save-stage write; none is left in a queue.
C4_AcceptedItemsRetired ==
  w_pc[TheWorker] = "returned" =>
     /\ retired_items[TheWorker] = accepted_items[TheWorker]
     /\ Len(saved[TheWorker]) = Len(pushed[TheWorker])
     /\ \A k \in 1..Len(pushed[TheWorker]) :
          Cardinality({j \in 1..Len(saved[TheWorker]) :
             saved[TheWorker][j] = pushed[TheWorker][k]}) = 1
     /\ \A q \in QueuesOf(TheWorker) : \A k \in 1..Len(q) : q[k] = Sentinel

\* C5: under fair scheduling of all threads and a master that answers every
\* NextIOItem call, a worker's NewJob always terminates and returns, for any
\* number of I/O items served to it.  (A worker the store fails at the
\* profiler write, or whose master died, is not held against the claim.)
C5_NewJobTerminates ==
  (w_pc[TheWorker] = "loop") ~>
     (w_pc[TheWorker] \in {"returned", "crashed"} \/ ~MasterUp)

\* some stage thread of the worker has failed on an entry
SomeThreadFailed ==
  \E st \in Stages : \E k \in DOMAIN ThreadsOf(TheWorker, st) :
     ThreadsOf(TheWorker, st)[k] = "failed"

\* C16: if a stage thread fails on an entry and terminates, the worker still
\* leaves the control loop, runs the sentinel cascade, joins the other
\* stage threads and returns from NewJob; it does not wait without end in
\* the control loop.
C16_FailedThreadStillReturns ==
  SomeThreadFailed ~>
     (w_pc[TheWorker] \in {"returned", "crashed"} \/ ~MasterUp)

\* the worker's NewJob is between its setup and its return
InNewJob == w_pc[TheWorker] \notin {"down", "idle", "crashed"}

\* the steps of WorkerImpl::NewJob from the exit of the control loop on
CascadeOrder ==
  <<"push_load", "join_load", "push_pre", "join_pre", "push_eval",
    "join_eval", "push_post", "join_post", "push_save", "join_save",
    "profiler", "returned">>

\* the position of the worker in the cascade, 0 before the cascade
CascadeRank ==
  IF \E k \in 1..Len(CascadeOrder) : CascadeOrder[k] = w_pc[TheWorker]
  THEN CHOOSE k \in 1..Len(CascadeOrder) : CascadeOrder[k] = w_pc[TheWorker]
  ELSE 0

SentinelsIn(q) == Cardinality({k \in 1..Len(q) : q[k] = Sentinel})

ExitedIn(threads) ==
  Cardinality({i \in DOMAIN threads : threads[i] = "exited"})

\* sentinels pushed into a stage's queue so far: n once the cascade is past
\* the push step at position rank, none before
PushedBy(rank, n) == IF CascadeRank > rank THEN n ELSE 0

\* every sentinel pushed for a stage is in the stage's input queue or has
\* ended one thread of the stage; the pushes happen in stage order
C17_SentinelCounts ==
  InNewJob =>
    /\ SentinelsIn(load_work[TheWorker]) + ExitedIn(load_threads[TheWorker])
         = PushedBy(1, LOAD_WORKERS_PER_NODE)
    /\ SentinelsIn(initial_eval_work[TheWorker])
         + ExitedIn(pre_eval_threads[TheWorker]) = PushedBy(3, PUS_PER_NODE)
    /\ \A pu \in PUs :
         /\ SentinelsIn(eval_work[TheWorker][pu][0]) = 0
         /\ SentinelsIn(eval_work[TheWorker][pu][1])
              + (IF eval_threads[TheWorker][pu] = "exited" THEN 1 ELSE 0)
              = PushedBy(5, 1)
         /\ SentinelsIn(eval_work[TheWorker][pu][2])
              + (IF post_eval_threads[TheWorker][pu] = "exited" THEN 1 ELSE 0)
              = PushedBy(7, 1)
    /\ SentinelsIn(save_work[TheWorker]) + ExitedIn(save_threads[TheWorker])
         = PushedBy(9, SAVE_WORKERS_PER_NODE)
    /\ CascadeRank > 10 =>
         /\ \A q \in QueuesOf(TheWorker) : SentinelsIn(q) = 0
         /\ \A st \in Stages : \A k \in DOMAIN ThreadsOf(TheWorker, st) :
              ThreadsOf(TheWorker, st)[k] = "exited"

\* C17: after the control loop the cascade pushes LOAD_WORKERS_PER_NODE
\* sentinels into the load queue, PUS_PER_NODE into the initial-eval queue,
\* one into each PU's queue[1] and queue[2] and SAVE_WORKERS_PER_NODE into
\* the save queue, in that order; each stage thread consumes one sentinel
\* and exits, so every join returns, and no sentinel is left in a queue
\* when NewJob returns.
C17_CascadeSentinels ==
  /\ []C17_SentinelCounts
  /\ (w_pc[TheWorker] = "push_load") ~>
        (w_pc[TheWorker] \in {"returned", "crashed"})

\* NewJob has returned after a cascade that ended every stage thread of a
\* job in which the worker had accepted an item
C17_Witness ==
  /\ w_pc[TheWorker] = "returned"
  /\ accepted_items[TheWorker] > 0
  /\ \A st \in Stages : \A k \in DOMAIN ThreadsOf(TheWorker, st) :
       ThreadsOf(TheWorker, st)[k] = "exited"
  /\ \A q \in QueuesOf(TheWorker) : SentinelsIn(q) = 0

HasEntry(q) == \E k \in 1..Len(q) : q[k] # Sentinel

\* the queues an entry passes before thread k of a stage pops it, the
\* stage's own input queue included
UpstreamOf(st, k) ==
  CASE st = "load" -> {load_work[TheWorker]}
    [] st = "pre_eval" -> {load_work[TheWorker], initial_eval_work[TheWorker]}
    [] st = "eval" ->
         {load_work[TheWorker], initial_eval_work[TheWorker],
          eval_work[TheWorker][k][0], eval_work[TheWorker][k][1]}
    [] st = "post_eval" ->
         {load_work[TheWorker], initial_eval_work[TheWorker],
          eval_work[TheWorker][k][0], eval_work[TheWorker][k][1],
          eval_work[TheWorker][k][2]}
    [] st = "save" -> QueuesOf(TheWorker)

\* C18: a sentinel is pushed into a stage's input queue only after every
\* producer of that queue has exited; hence no non-sentinel entry is
\* enqueued behind a sentinel, and no stage thread has exited while a
\* non-sentinel entry destined for its stage is in its input queue or
\* upstream of it.
C18_NoEntryLeftBehind ==
  InNewJob =>
    /\ \A q \in QueuesOf(TheWorker) : \A i, j \in 1..Len(q) :
         (i < j /\ q[i] = Sentinel) => q[j] = Sentinel
    /\ \A st \in Stages : \A k \in DOMAIN ThreadsOf(TheWorker, st) :
         ThreadsOf(TheWorker, st)[k] = "exited" =>
            \A q \in UpstreamOf(st, k) : ~HasEntry(q)

\* the control loop asks for an item only below the cap, so the items in
\* flight never exceed it
C19_InFlightBelowCap ==
  InNewJob =>
    /\ accepted_items[TheWorker] - retired_items[TheWorker] <= InFlightCap
    /\ w_pc[TheWorker] = "rpc" =>
         accepted_items[TheWorker] - retired_items[TheWorker] < InFlightCap
    /\ Len(pushed[TheWorker]) = accepted_items[TheWorker]

\* what the control loop does with a reply
C19_ReplyStep ==
  (w_pc[TheWorker] = "reply" /\ w_pc'[TheWorker] # "reply") =>
     IF next_item[TheWorker] = -1
     THEN /\ w_pc'[TheWorker] = "push_load"
          /\ load_work' = load_work
          /\ accepted_items' = accepted_items
     ELSE /\ next_item[TheWorker] \in 0..(Len(load_work_entries) - 1)
          /\ load_work'[TheWorker] =
               Append(load_work[TheWorker],
                 load_work_entries[next_item[TheWorker] + 1].io_item_index)
          /\ accepted_items'[TheWorker] = accepted_items[TheWorker] + 1
          /\ w_pc'[TheWorker] = "loop"

\* C19: the control loop calls Master.NextIOItem only when accepted_items -
\* retired_items < PUS_PER_NODE x TASKS_IN_QUEUE_PER_PU; a non-negative
\* reply pushes exactly load_work[id] into the load queue and increments
\* accepted_items by one, a -1 reply ends the loop without a push; so
\* accepted_items - retired_items never exceeds the cap.
C19_ControlLoopCap ==
  /\ []C19_InFlightBelowCap
  /\ [][C19_ReplyStep]_vars

\* the worker has accepted as many items as the cap allows and none of them
\* is retired
C19_Witness ==
  /\ w_pc[TheWorker] = "loop"
  /\ accepted_items[TheWorker] - retired_items[TheWorker] = InFlightCap
  /\ Len(pushed[TheWorker]) = InFlightCap

\* the item ids of the jobs submitted to the master
JobItemIds == 0..(CeilDiv(MaxJobRows, IO_ITEM_SIZE) - 1)

\* C20: every entry that a PU's pre-eval thread outputs is eventually popped
\* by the eval thread of the same PU, then by its post-eval thread, and
\* then reaches the save queue; no entry stays forever in a queue that has
\* no consumer.  (A worker or master process that dies is not held against
\* the claim.)
C20_PreEvalOutputReachesSave ==
  \A pu \in PUs : \A id \in JobItemIds :
     (id \in Range(eval_work[TheWorker][pu][PreEvalOutputQueue])) ~>
        \/ id \in Range(save_work[TheWorker]) \cup Range(saved[TheWorker])
        \/ w_pc[TheWorker] = "crashed"
        \/ ~MasterUp

(***************************************************************************)
(* Claims about item indices and worker registration                       *)
(***************************************************************************)
\* C23: the planner returns io_items and load-work arrays of equal length
\* with load_work[k].io_item_index = k for every k (the index is global
\* across tasks); consequently every non-negative ID that NextIOItem returns
\* in a job is a valid index into the worker's load-work array and selects
\* the entry of the item the master counted at that position.
C23_RepliesIndexLoadWork ==
  /\ Len(load_work_entries) = Len(io_items)
  /\ \A k \in 1..Len(load_work_entries) :
       load_work_entries[k].io_item_index = k - 1
  /\ \A k \in 1..Len(Replies) :
       Replies[k] >= 0 =>
          /\ Replies[k] < Len(WorkerLoadWork)
          /\ WorkerLoadWork[Replies[k] + 1].io_item_index = Replies[k]

\* C24: each RegisterWorker call appends exactly one stub to the master's
\* workers list and its reply assigns the calling worker a node_id; two
\* different workers registered with the same master hold different
\* node_ids.
C24_DistinctNodeIds ==
  /\ Cardinality(Range(workers_)) = Len(workers_)
  /\ \A w \in Workers : w \in Range(workers_) <=> w_pc[w] # "down"
  /\ \A v, w \in Range(workers_) : v # w => node_id_[v] # node_id_[w]

(***************************************************************************)
(* Claims about kernel binding                                             *)
(***************************************************************************)
\* the devices of every kernel config bound so far
C22_BoundDevices ==
  /\ \A k \in 1..Len(kernel_configs) :
       LET ev == evaluators[k]
           devices == kernel_configs[k]
       IN /\ ev.device_type \in {"CPU", "GPU"}
          /\ ev.device_type = "CPU" => devices = <<CPU_DEVICE>>
          /\ (ev.device_type = "GPU" /\ num_gpus > 0) =>
               /\ Len(devices) = ev.device_count
               /\ \A i \in 0..(ev.device_count - 1) :
                    /\ devices[i + 1].type = "GPU"
                    /\ devices[i + 1].id \in 0..(num_gpus - 1)
                    /\ \E q \in 0..i : i = q * num_gpus + devices[i + 1].id
  /\ bind_status = "fatal" =>
       /\ Len(kernel_configs) < Len(evaluators)
       /\ evaluators[Len(kernel_configs) + 1].device_type \notin {"CPU", "GPU"}

\* binding an evaluator of another device type ends in the fatal error
C22_OtherTypeFatal ==
  (/\ bind_status = "binding"
   /\ Len(kernel_configs) < Len(evaluators)
   /\ evaluators[Len(kernel_configs) + 1].device_type \notin {"CPU", "GPU"})
  => (bind_status' = "fatal" /\ kernel_configs' = kernel_configs)

\* C22: kernel binding gives a CPU evaluator exactly one device, the CPU
\* device, and a GPU evaluator exactly device_count device records, the
\* i-th being (GPU, i mod number of local GPU device ids); any other device
\* type is a fatal error for the job.
C22_KernelDevices ==
  /\ []C22_BoundDevices
  /\ [][C22_OtherTypeFatal]_vars

\* a GPU evaluator with more devices than the node has GPU ids was bound: the
\* ids wrap around
C22_Witness ==
  /\ num_gpus = 2
  /\ \E k \in 1..Len(kernel_configs) :
       /\ evaluators[k].device_type = "GPU"
       /\ evaluators[k].device_count = 3
       /\ kernel_configs[k] =
            <<[type |-> "GPU", id |-> 0], [type |-> "GPU", id |-> 1],
              [type |-> "GPU", id |-> 0]>>

(***************************************************************************)
(* Claims about the order of entries inside a PU                           *)
(***************************************************************************)
IsPrefix(a, b) == Len(a) <= Len(b) /\ a = SubSeq(b, 1, Len(a))

====
